---- MODULE Spec2Model ----
(***************************************************************************)
(* EventBus.hpp: the type-indexed publish/subscribe registry (EventBus)    *)
(* and its move-only RAII token (Subscription).                            *)
(*                                                                         *)
(* Every thread has a call stack of frames.  A frame is one activation of  *)
(* EventBus::subscribe, EventBus::publish, EventBus::unsubscribe,          *)
(* Subscription::unsubscribe, Subscription::operator=, or of a listener    *)
(* callback.  Client code (the top level of a thread, or the body of a     *)
(* callback) may start any operation of the public interface.              *)
(***************************************************************************)
EXTENDS Integers, Sequences, FiniteSets, TLC

\* ------------------------------------------------------------------ bounds
MaxCalls == 4     \* calls client code makes in one run (subscribe, publish, token operations)
NPublishers == 2  \* N: the publishing threads of the concurrent-publish scenario
MPublishes == 2   \* M: publish calls of each of them
KListeners == 2   \* K: listeners registered beforehand in that scenario

Types == {"T", "U"}          \* event types: std::type_index values
VoidType == "void"           \* std::type_index(typeid(void))
ClientThreads == {1, 2}
Threads == ClientThreads \cup (1..NPublishers)

VARIABLES
  subscribers,   \* EventBus::subscribers: type -> sequence of cells (map keys = DOMAIN)
  nextId,        \* EventBus::nextId
  mutexW,        \* EventBus::mutex_: the thread holding it exclusively, or 0
  mutexR,        \* EventBus::mutex_: the threads holding it shared
  cells,         \* every EventWrapper allocated so far: [id, type, owns, freed]
  tokens,        \* every Subscription constructed so far: [hid, type, weak, owner, live]
  stack,         \* per thread: its call stack, top last
  appOwner,      \* the application still holds its shared_ptr<EventBus>
  busLive,       \* the EventBus object has not been destroyed
  aborted,       \* std::terminate was called
  count,         \* per cell: how many times its callback was invoked
  unsubCalls,    \* per handler id: calls of EventBus::unsubscribe made by tokens
  released,      \* handler ids whose token release has returned on a live bus
  nOps           \* calls client code has made

vars == <<subscribers, nextId, mutexW, mutexR, cells, tokens, stack, appOwner,
          busLive, aborted, count, unsubCalls, released, nOps>>

\* ----------------------------------------------------------------- helpers
Range(s) == {s[i] : i \in DOMAIN s}
NoMap == [ty \in {} |-> <<>>]
MaxOf(S) == CHOOSE m \in S : \A x \in S : x <= m

\* A frame of a call stack.  k: the function; pc: the position in it.
Frame(k, pc) ==
  [k |-> k, pc |-> pc, type |-> VoidType, val |-> 0, id |-> 0, tok |-> 0, src |-> 0,
   snap |-> <<>>, idx |-> 0, inv |-> <<>>, at |-> <<>>, ncells |-> 0, rel |-> {},
   strong |-> FALSE, dtor |-> FALSE, thrown |-> FALSE]

Top(t) == stack[t][Len(stack[t])]
Below(t) == SubSeq(stack[t], 1, Len(stack[t]) - 1)
AllFrames(stk) == UNION {Range(stk[t]) : t \in Threads}
\* some frame of some stack satisfies P
AnyFrame(stk, P(_)) == \E t \in Threads : \E i \in DOMAIN stk[t] : P(stk[t][i])

\* Client code runs at the top level of a thread or in the body of a callback.
InClient(t) == ~aborted /\ (IF stack[t] = <<>> THEN TRUE ELSE Top(t).k = "cb")
At(t, k, pc) == ~aborted /\ stack[t] # <<>> /\ Top(t).k = k /\ Top(t).pc = pc

\* std::unique_lock / std::shared_lock on a std::shared_mutex
CanLockUnique(t) == mutexW = 0 /\ mutexR = {}
CanLockShared(t) == mutexW = 0 /\ t \notin mutexR
\* the thread is blocked in a lock constructor on a mutex it owns itself
SelfWait(t) == stack[t] # <<>> /\ Top(t).pc = "lock" /\ (mutexW = t \/ t \in mutexR)

\* ---------------------------------------------------- shared_ptr ownership
\* The shared_ptr<IEventWrapper> copies: one per bucket entry, one per
\* snapshot entry of a publish frame.
InBucket(c, subs) == \E ty \in DOMAIN subs : \E i \in DOMAIN subs[ty] : subs[ty][i] = c
RawPointers(c, stk) == FALSE
\* listenersSnapshot holds a shared_ptr to each of its cells
InSnapshot(c, stk) ==
  LET Holds(f) == f.k = "pub" /\ \E i \in DOMAIN f.snap : f.snap[i] = c
  IN AnyFrame(stk, Holds)
\* the cells whose last shared_ptr is gone once the map and stacks are subs, stk
Dropped(subs, stk) ==
  {c \in DOMAIN cells : ~cells[c].freed /\ ~InBucket(c, subs) /\ ~InSnapshot(c, stk)}
FreeCells(D) == [c \in DOMAIN cells |-> IF c \in D THEN [cells[c] EXCEPT !.freed = TRUE]
                                                    ELSE cells[c]]
\* ~EventWrapper destroys the callback and with it a Subscription the callback
\* owns: one ~Subscription frame per such token, the first destroyed on top.
RECURSIVE DtorFrames(_)
DtorFrames(D) ==
  IF D = {} THEN <<>>
  ELSE LET c == MaxOf(D)
           rest == DtorFrames(D \ {c})
       IN IF cells[c].owns = 0 THEN rest
          ELSE <<[Frame("rel", "check") EXCEPT !.tok = cells[c].owns, !.dtor = TRUE]>> \o rest

\* ------------------------------------------------- pieces of the code
OneKey(T) == "T"
\* std::type_index(typeid(T)): one key per event type
TypeIdx(T) == T

PushFront(list, c) == <<c>> \o list
\* subscribers[typeIdx].push_back(wrapper)
PushBack(list, c) == Append(list, c)

\* subscribers[typeIdx]: operator[] creates the bucket if absent
Bucket(subs, ty) == IF ty \in DOMAIN subs THEN subs[ty] ELSE <<>>
WithBucket(subs, ty, list) ==
  [x \in DOMAIN subs \cup {ty} |-> IF x = ty THEN list ELSE subs[x]]

SnapshotTail(ty) == Tail(subscribers[ty])
\* listenersSnapshot = it->second
Snapshot(ty) == subscribers[ty]

LiveListeners(f) == Bucket(subscribers, f.type)
StillRegistered(f) ==
  LET Kept(c) == InBucket(c, subscribers) IN SelectSeq(f.snap, Kept)
\* for (const auto &wrapper : listenersSnapshot)
Listeners(f) == f.snap

SkipOne(i) == i + 2
\* the range-for steps to the next element of listenersSnapshot
Advance(i) == i + 1

EraseNothing(list, id) == list
\* std::erase_if(list, [id](const auto &wrapper) { return wrapper->id == id; })
EraseIf(list, id) ==
  LET Keep(c) == cells[c].id # id IN SelectSeq(list, Keep)

KeepEmpty(subs, ty) == subs
PruneAlways(subs, ty) == [x \in DOMAIN subs \ {ty} |-> subs[x]]
\* if (list.empty()) subscribers.erase(it)
Pruned(subs, ty) ==
  IF subs[ty] = <<>> THEN [x \in DOMAIN subs \ {ty} |-> subs[x]] ELSE subs

SameId(n) == n
\* HandlerId id = nextId++: the counter after the post-increment
PostIncrement(n) == n + 1

StillActive(tk) == tk
\* handlerId = 0; weakBus.reset()
Invalidated(tk) == [tk EXCEPT !.hid = 0, !.weak = FALSE]

\* ------------------------------------------------------------------- Init
Init ==
  /\ subscribers = NoMap
  /\ nextId = 1
  /\ mutexW = 0
  /\ mutexR = {}
  /\ cells = <<>>
  /\ tokens = <<>>
  /\ stack = [t \in Threads |-> <<>>]
  /\ appOwner = TRUE
  /\ busLive = TRUE
  /\ aborted = FALSE
  /\ count = <<>>
  /\ unsubCalls = [i \in {} |-> 0]
  /\ released = {}
  /\ nOps = 0

\* --------------------------------------------------------- bookkeeping
SetStack(t, s) == [stack EXCEPT ![t] = s]
SetTop(t, f) == SetStack(t, Append(Below(t), f))
Push(t, f) == SetStack(t, Append(stack[t], f))

\* a Subscription object client code may use: alive, owned by client code, and
\* not the operand of a call that is still running
TokFree(k) ==
  /\ k \in DOMAIN tokens
  /\ tokens[k].live
  /\ tokens[k].owner = 0
  /\ LET Uses(f) == f.tok = k \/ f.src = k IN ~AnyFrame(stack, Uses)

\* client code may make another call
MayCall(t) == nOps < MaxCalls

\* the caller of subscribe/publish holds the application's shared_ptr<EventBus>
BusUsable == busLive /\ appOwner

IncCall(key) ==
  [x \in DOMAIN unsubCalls \cup {key} |->
     IF x = key THEN (IF key \in DOMAIN unsubCalls THEN unsubCalls[key] ELSE 0) + 1
     ELSE unsubCalls[x]]

\* ~EventBus: the map is destroyed, and with it every cell the buckets owned
\* last; a token owned by such a cell finds the bus expired and only resets.
CellsAfterBus(stk) == FreeCells(Dropped(NoMap, stk))
TokensAfterBus(toks, stk) ==
  [k \in DOMAIN toks |->
     IF toks[k].owner \in Dropped(NoMap, stk)
     THEN [Invalidated(toks[k]) EXCEPT !.live = FALSE]
     ELSE toks[k]]

\* ------------------------------------------------------ EventBus::subscribe
CallSubscribe(t, T, cap) ==
  /\ BusUsable /\ InClient(t)
  /\ MayCall(t)
  /\ cap = 0 \/ TokFree(cap)
  /\ nOps' = nOps + 1
  /\ stack' = Push(t, [Frame("sub", "lock") EXCEPT !.type = T, !.src = cap])
  /\ UNCHANGED <<subscribers, nextId, mutexW, mutexR, cells, tokens, appOwner, busLive,
                 aborted, count, unsubCalls, released>>

\* std::unique_lock lock(mutex_); ...; return Subscription(...): the whole
\* body runs under the exclusive lock
SubBody(t) ==
  /\ At(t, "sub", "lock") /\ CanLockUnique(t)
  /\ LET f == Top(t)
         typeIdx == TypeIdx(f.type)
         id == nextId
         wrapper == Len(cells) + 1
         held == IF f.src = 0 THEN tokens
                 ELSE [tokens EXCEPT ![f.src].owner = wrapper]
     IN /\ nextId' = PostIncrement(nextId)
        /\ cells' = Append(cells, [id |-> id, type |-> f.type, owns |-> f.src, freed |-> FALSE])
        /\ count' = Append(count, 0)
        /\ subscribers' = WithBucket(subscribers, typeIdx,
                                     PushBack(Bucket(subscribers, typeIdx), wrapper))
        /\ tokens' = Append(held, [hid |-> id, type |-> typeIdx, weak |-> TRUE,
                                   owner |-> 0, live |-> TRUE])
  /\ stack' = SetStack(t, Below(t))
  /\ UNCHANGED <<mutexW, mutexR, appOwner, busLive, aborted, unsubCalls, released, nOps>>

\* -------------------------------------------------------- EventBus::publish
CallPublish(t, T, v) ==
  /\ BusUsable /\ InClient(t)
  /\ MayCall(t)
  /\ nOps' = nOps + 1
  /\ stack' = Push(t, [Frame("pub", "lock") EXCEPT !.type = T, !.val = v])
  /\ UNCHANGED <<subscribers, nextId, mutexW, mutexR, cells, tokens, appOwner, busLive,
                 aborted, count, unsubCalls, released>>

HoldShared(R, t) == R
\* the shared_lock goes out of scope before the delivery loop
ScopeExit(R, t) == R \ {t}

\* the block under std::shared_lock: find, the early return, the copy
PubSnapshot(t) ==
  /\ At(t, "pub", "lock") /\ CanLockShared(t)
  /\ LET f == Top(t)
         typeIdx == TypeIdx(f.type)
     IN IF typeIdx \notin DOMAIN subscribers \/ subscribers[typeIdx] = <<>>
        THEN /\ stack' = SetStack(t, Below(t))
             /\ mutexR' = mutexR
        ELSE /\ stack' = SetTop(t, [f EXCEPT !.snap = Snapshot(typeIdx),
                                             !.at = subscribers[typeIdx],
                                             !.ncells = Len(cells),
                                             !.rel = released,
                                             !.idx = 1,
                                             !.pc = "loop"])
             /\ mutexR' = ScopeExit(mutexR \cup {t}, t)
  /\ UNCHANGED <<subscribers, nextId, mutexW, cells, tokens, appOwner, busLive,
                 aborted, count, unsubCalls, released, nOps>>

\* static_cast<EventWrapper<T> *>(wrapper.get())->call(event)
PubInvoke(t) ==
  /\ At(t, "pub", "loop")
  /\ LET f == Top(t)
     IN /\ f.idx <= Len(Listeners(f))
        /\ LET wrapper == Listeners(f)[f.idx]
           IN /\ count' = [count EXCEPT ![wrapper] = @ + 1]
              /\ stack' = SetStack(t, Below(t) \o
                            << [f EXCEPT !.inv = Append(@, <<wrapper, f.val>>)],
                               [Frame("cb", "run") EXCEPT !.id = wrapper, !.val = f.val,
                                                          !.type = f.type,
                                                          !.rel = released] >>)
  /\ UNCHANGED <<subscribers, nextId, mutexW, mutexR, cells, tokens, appOwner, busLive,
                 aborted, unsubCalls, released, nOps>>

\* the callback returns: the loop goes on with the next wrapper
CbReturn(t) ==
  /\ At(t, "cb", "run")
  /\ LET p == stack[t][Len(stack[t]) - 1]
     IN stack' = SetStack(t, Append(SubSeq(stack[t], 1, Len(stack[t]) - 2),
                                    [p EXCEPT !.idx = Advance(@)]))
  /\ UNCHANGED <<subscribers, nextId, mutexW, mutexR, cells, tokens, appOwner, busLive,
                 aborted, count, unsubCalls, released, nOps>>

Swallow(p) == [p EXCEPT !.idx = Advance(@)]
\* publish has no try/catch: an exception of call() leaves the loop and the function
Propagate(p) == [p EXCEPT !.pc = "unwind"]

\* the callback throws: nothing in publish catches, the loop is left
CbThrow(t) ==
  /\ At(t, "cb", "run")
  /\ LET p == stack[t][Len(stack[t]) - 1]
     IN stack' = SetStack(t, Append(SubSeq(stack[t], 1, Len(stack[t]) - 2),
                                    [Propagate(p) EXCEPT !.thrown = TRUE]))
  /\ UNCHANGED <<subscribers, nextId, mutexW, mutexR, cells, tokens, appOwner, busLive,
                 aborted, count, unsubCalls, released, nOps>>

\* publish is left (loop finished, or an exception unwinds it): listenersSnapshot
\* is destroyed, outside the lock
PubReturn(t) ==
  /\ ~aborted /\ stack[t] # <<>> /\ Top(t).k = "pub"
  /\ \/ Top(t).pc = "loop" /\ Top(t).idx > Len(Listeners(Top(t)))
     \/ Top(t).pc = "unwind"
  /\ LET D == Dropped(subscribers, SetStack(t, Below(t)))
     IN /\ cells' = FreeCells(D)
        /\ stack' = SetStack(t, Below(t) \o DtorFrames(D))
  /\ UNCHANGED <<subscribers, nextId, mutexW, mutexR, tokens, appOwner, busLive,
                 aborted, count, unsubCalls, released, nOps>>

\* ------------------------------------------------ Subscription::unsubscribe
\* explicit call of Subscription::unsubscribe by client code
CallRelease(t, k) ==
  /\ InClient(t) /\ TokFree(k) /\ MayCall(t)
  /\ nOps' = nOps + 1
  /\ stack' = Push(t, [Frame("rel", "check") EXCEPT !.tok = k])
  /\ UNCHANGED <<subscribers, nextId, mutexW, mutexR, cells, tokens, appOwner, busLive,
                 aborted, count, unsubCalls, released>>

\* ~Subscription of a token client code owns
CallDestroy(t, k) ==
  /\ InClient(t) /\ TokFree(k) /\ MayCall(t)
  /\ nOps' = nOps + 1
  /\ stack' = Push(t, [Frame("rel", "check") EXCEPT !.tok = k, !.dtor = TRUE])
  /\ UNCHANGED <<subscribers, nextId, mutexW, mutexR, cells, tokens, appOwner, busLive,
                 aborted, count, unsubCalls, released>>

LockAnyway(tk) == tk.weak
\* weakBus.lock(): a shared_ptr if the EventBus still exists
WeakLock(tk) == tk.weak /\ busLive

TokensOwn(stk) ==
  \/ LET Strong(g) == g.strong IN AnyFrame(stk, Strong)
  \/ \E k \in DOMAIN tokens : tokens[k].live /\ tokens[k].weak
\* the shared_ptr<EventBus> copies besides the application's: the local `bus`
\* of each release that is inside bus->unsubscribe; a token itself holds a weak_ptr
StrongRefs(stk) == LET Strong(g) == g.strong IN AnyFrame(stk, Strong)

\* the object is gone once its destructor has run
Finished(tk, f) == [tk EXCEPT !.live = ~f.dtor]

\* if (handlerId == 0) return;  if (auto bus = weakBus.lock()) bus->unsubscribe(...)
RelCheck(t) ==
  /\ At(t, "rel", "check")
  /\ LET f == Top(t)
         tk == tokens[f.tok]
     IN IF tk.hid = 0
        THEN /\ tokens' = [tokens EXCEPT ![f.tok] = Finished(tk, f)]
             /\ stack' = SetStack(t, Below(t))
             /\ UNCHANGED unsubCalls
        ELSE IF WeakLock(tk)
        THEN /\ stack' = SetStack(t, Below(t) \o
                           << [f EXCEPT !.pc = "unsubbed", !.strong = TRUE, !.id = tk.hid,
                                        !.type = tk.type],
                              [Frame("unsub", "lock") EXCEPT !.type = tk.type, !.id = tk.hid] >>)
             /\ unsubCalls' = IncCall(<<tk.type, tk.hid>>)
             /\ UNCHANGED tokens
        ELSE /\ tokens' = [tokens EXCEPT ![f.tok] = Finished(Invalidated(tk), f)]
             /\ stack' = SetStack(t, Below(t))
             /\ UNCHANGED unsubCalls
  /\ UNCHANGED <<subscribers, nextId, mutexW, mutexR, cells, appOwner, busLive,
                 aborted, count, released, nOps>>

\* bus->unsubscribe has returned: the local shared_ptr `bus` is destroyed (and
\* with it the EventBus, if it was the last owner), then the token is reset
RelReset(t) ==
  /\ At(t, "rel", "unsubbed")
  /\ LET f == Top(t)
         stk == SetStack(t, Below(t))
         last == ~appOwner /\ ~StrongRefs(stk)
         toks == [tokens EXCEPT ![f.tok] = Finished(Invalidated(tokens[f.tok]), f)]
     IN /\ stack' = stk
        /\ released' = released \cup {f.id}
        /\ IF last
           THEN /\ busLive' = FALSE
                /\ subscribers' = NoMap
                /\ cells' = CellsAfterBus(stk)
                /\ tokens' = TokensAfterBus(toks, stk)
           ELSE /\ tokens' = toks
                /\ UNCHANGED <<busLive, subscribers, cells>>
  /\ UNCHANGED <<nextId, mutexW, mutexR, appOwner, aborted, count, unsubCalls, nOps>>

\* ---------------------------------------------------- EventBus::unsubscribe
\* EventBus::unsubscribe is public: client code may call it with any type and id
CallUnsubscribe(t, ty, id) ==
  /\ BusUsable /\ InClient(t)
  /\ MayCall(t)
  /\ nOps' = nOps + 1
  /\ stack' = Push(t, [Frame("unsub", "lock") EXCEPT !.type = ty, !.id = id])
  /\ UNCHANGED <<subscribers, nextId, mutexW, mutexR, cells, tokens, appOwner, busLive,
                 aborted, count, unsubCalls, released>>

\* std::unique_lock lock(mutex_); find + erase_if; a wrapper whose last shared_ptr was the
\* bucket's is destroyed here
UnsubErase(t) ==
  /\ At(t, "unsub", "lock") /\ CanLockUnique(t)
  /\ mutexW' = t
  /\ LET f == Top(t)
         subs == IF f.type \in DOMAIN subscribers
                 THEN [subscribers EXCEPT ![f.type] = EraseIf(@, f.id)]
                 ELSE subscribers
         D == Dropped(subs, stack)
     IN /\ subscribers' = subs
        /\ cells' = FreeCells(D)
        /\ stack' = SetStack(t, Below(t) \o
                        <<[f EXCEPT !.pc = "prune", !.at = Bucket(subscribers, f.type)]>> \o
                        DtorFrames(D))
  /\ UNCHANGED <<nextId, mutexR, tokens, appOwner, busLive,
                 aborted, count, unsubCalls, released, nOps>>

\* if (list.empty()) subscribers.erase(it); the unique_lock goes out of scope
UnsubPrune(t) ==
  /\ At(t, "unsub", "prune")
  /\ LET f == Top(t)
     IN subscribers' = IF f.type \in DOMAIN subscribers
                       THEN Pruned(subscribers, f.type)
                       ELSE subscribers
  /\ mutexW' = 0
  /\ stack' = SetStack(t, Below(t))
  /\ UNCHANGED <<nextId, mutexR, cells, tokens, appOwner, busLive,
                 aborted, count, unsubCalls, released, nOps>>

\* ------------------------------------------------------ moves of Subscription
SourceKept(other) == other
\* moveFrom: what the destination becomes, and what is left of the source
IdNotTaken(dst, other) == [dst EXCEPT !.type = other.type, !.weak = other.weak]
\* weakBus = std::move(other.weakBus); eventType = other.eventType; handlerId = other.handlerId
MovedTo(dst, other) == [dst EXCEPT !.hid = other.hid, !.type = other.type, !.weak = other.weak]
\* other.handlerId = 0; other.weakBus.reset()
MovedFrom(other) == [other EXCEPT !.hid = 0, !.weak = FALSE]

\* Subscription()
DefaultConstruct(t) ==
  /\ InClient(t) /\ MayCall(t)
  /\ nOps' = nOps + 1
  /\ tokens' = Append(tokens, [hid |-> 0, type |-> VoidType, weak |-> FALSE,
                               owner |-> 0, live |-> TRUE])
  /\ UNCHANGED <<subscribers, nextId, mutexW, mutexR, cells, stack, appOwner, busLive,
                 aborted, count, unsubCalls, released>>

\* Subscription(Subscription &&other)
MoveConstruct(t, other) ==
  /\ InClient(t) /\ TokFree(other) /\ MayCall(t)
  /\ nOps' = nOps + 1
  /\ LET fresh == [hid |-> 0, type |-> VoidType, weak |-> FALSE, owner |-> 0, live |-> TRUE]
     IN tokens' = Append([tokens EXCEPT ![other] = MovedFrom(@)],
                         MovedTo(fresh, tokens[other]))
  /\ UNCHANGED <<subscribers, nextId, mutexW, mutexR, cells, stack, appOwner, busLive,
                 aborted, count, unsubCalls, released>>

\* operator=(Subscription &&other)
CallMoveAssign(t, k, other) ==
  /\ InClient(t) /\ TokFree(k) /\ TokFree(other) /\ MayCall(t)
  /\ nOps' = nOps + 1
  /\ stack' = Push(t, [Frame("assign", "start") EXCEPT !.tok = k, !.src = other])
  /\ UNCHANGED <<subscribers, nextId, mutexW, mutexR, cells, tokens, appOwner, busLive,
                 aborted, count, unsubCalls, released>>

JustMove(f) == << [f EXCEPT !.pc = "move"] >>
\* unsubscribe(); then moveFrom(std::move(other))
ReleaseFirst(f) == << [f EXCEPT !.pc = "move"], [Frame("rel", "check") EXCEPT !.tok = f.tok] >>

\* if (this != &other) { unsubscribe(); ...   (the frame remembers what *this held)
AssignStart(t) ==
  /\ At(t, "assign", "start")
  /\ LET f == Top(t)
         g == [f EXCEPT !.id = tokens[f.tok].hid, !.type = tokens[f.tok].type]
     IN IF f.tok = f.src
        THEN stack' = SetStack(t, Below(t))
        ELSE stack' = SetStack(t, Below(t) \o ReleaseFirst(g))
  /\ UNCHANGED <<subscribers, nextId, mutexW, mutexR, cells, tokens, appOwner, busLive,
                 aborted, count, unsubCalls, released, nOps>>

\* ... moveFrom(std::move(other)); }
AssignMove(t) ==
  /\ At(t, "assign", "move")
  /\ LET f == Top(t)
     IN tokens' = [tokens EXCEPT ![f.tok] = MovedTo(@, tokens[f.src]),
                                 ![f.src] = MovedFrom(@)]
  /\ stack' = SetStack(t, Below(t))
  /\ UNCHANGED <<subscribers, nextId, mutexW, mutexR, cells, appOwner, busLive,
                 aborted, count, unsubCalls, released, nOps>>

\* ------------------------------------------------------ lifetime of the bus
\* the application drops its shared_ptr<EventBus>; no call made through it is
\* running.  The bus dies now unless a token release holds it for a moment.
DropOwner(t) ==
  /\ ~aborted /\ appOwner /\ stack[t] = <<>>
  /\ LET ViaOwner(f) == f.k \in {"pub", "sub", "cb"} IN ~AnyFrame(stack, ViaOwner)
  /\ appOwner' = FALSE
  /\ IF StrongRefs(stack)
     THEN UNCHANGED <<busLive, subscribers, cells, tokens>>
     ELSE /\ busLive' = FALSE
          /\ subscribers' = NoMap
          /\ cells' = CellsAfterBus(stack)
          /\ tokens' = TokensAfterBus(tokens, stack)
  /\ UNCHANGED <<nextId, mutexW, mutexR, stack, aborted, count, unsubCalls, released,
                 nOps>>

\* Locking a std::shared_mutex the thread already owns is undefined: the
\* thread blocks for ever, or the lock constructor throws inside a noexcept
\* destructor and std::terminate ends the process.
Terminate(t) ==
  /\ ~aborted /\ SelfWait(t)
  /\ aborted' = TRUE
  /\ UNCHANGED <<subscribers, nextId, mutexW, mutexR, cells, tokens, stack, appOwner,
                 busLive, count, unsubCalls, released, nOps>>

\* --------------------------------------------------------------------- Next
\* the steps every operation is made of, once client code has started it
Step(t) ==
  \/ SubBody(t)
  \/ PubSnapshot(t)
  \/ PubInvoke(t)
  \/ CbReturn(t)
  \/ CbThrow(t)
  \/ PubReturn(t)
  \/ RelCheck(t)
  \/ RelReset(t)
  \/ UnsubErase(t)
  \/ UnsubPrune(t)
  \/ Terminate(t)

\* Subscribers, publishers and token holders on two threads; callbacks are
\* client code too, and may call back into the bus.
Next ==
  \E t \in ClientThreads :
    \/ \E T \in Types, cap \in {0} \cup DOMAIN tokens : CallSubscribe(t, T, cap)
    \/ \E T \in Types : CallPublish(t, T, nOps + 1)
    \/ \E k \in DOMAIN tokens : CallRelease(t, k)
    \/ Step(t)

Spec == Init /\ [][Next]_vars

\* The life of tokens: moves, assignments, releases and destructions, while the
\* application may drop the bus.
NextTokens ==
     \E t \in ClientThreads :
       \/ \E T \in Types : CallSubscribe(t, T, 0)
       \/ SubBody(t)
       \/ \E k \in DOMAIN tokens : CallRelease(t, k)
       \/ \E k \in DOMAIN tokens : CallDestroy(t, k)
       \/ RelCheck(t)
       \/ RelReset(t)
       \/ UnsubErase(t)
       \/ UnsubPrune(t)
       \/ DefaultConstruct(t)
       \/ \E k \in DOMAIN tokens : MoveConstruct(t, k)
       \/ \E k, o \in DOMAIN tokens : CallMoveAssign(t, k, o)
       \/ AssignStart(t)
       \/ AssignMove(t)
       \/ DropOwner(t)

SpecTokens == Init /\ [][NextTokens]_vars

\* Tokens are moved, assigned, released and destroyed at the top level of two
\* threads while events are published; the listeners only observe.
NextMoves ==
  \E t \in ClientThreads :
    \/ \E T \in Types : stack[t] = <<>> /\ CallSubscribe(t, T, 0)
    \/ \E T \in Types : stack[t] = <<>> /\ CallPublish(t, T, nOps + 1)
    \/ \E k \in DOMAIN tokens : stack[t] = <<>> /\ CallRelease(t, k)
    \/ \E k \in DOMAIN tokens : stack[t] = <<>> /\ CallDestroy(t, k)
    \/ \E k \in DOMAIN tokens : stack[t] = <<>> /\ MoveConstruct(t, k)
    \/ \E k, o \in DOMAIN tokens : stack[t] = <<>> /\ CallMoveAssign(t, k, o)
    \/ SubBody(t)
    \/ PubSnapshot(t)
    \/ PubInvoke(t)
    \/ CbReturn(t)
    \/ PubReturn(t)
    \/ RelCheck(t)
    \/ RelReset(t)
    \/ UnsubErase(t)
    \/ UnsubPrune(t)
    \/ AssignStart(t)
    \/ AssignMove(t)

SpecMoves == Init /\ [][NextMoves]_vars

\* Client code that also calls EventBus::unsubscribe itself, with ids that are
\* registered, removed, not yet assigned, or registered under another type.
NextDirect ==
  \E t \in ClientThreads :
    \/ \E T \in Types : CallSubscribe(t, T, 0)
    \/ SubBody(t)
    \/ \E ty \in Types, id \in 0..nextId : CallUnsubscribe(t, ty, id)
    \/ UnsubErase(t)
    \/ UnsubPrune(t)
    \/ \E k \in DOMAIN tokens : CallRelease(t, k)
    \/ RelCheck(t)
    \/ RelReset(t)

SpecDirect == Init /\ [][NextDirect]_vars

\* ------------------------------------------- the concurrent-publish scenario
\* K listeners of type T are registered and their tokens are kept; each of N
\* threads runs  for (i = 0; i < M; ++i) bus->publish(T{...});  and every
\* listener only counts its invocations.
InitConc ==
  /\ subscribers = [ty \in {TypeIdx("T")} |-> [c \in 1..KListeners |-> c]]
  /\ nextId = KListeners + 1
  /\ mutexW = 0
  /\ mutexR = {}
  /\ cells = [c \in 1..KListeners |-> [id |-> c, type |-> "T", owns |-> 0, freed |-> FALSE]]
  /\ tokens = [c \in 1..KListeners |-> [hid |-> c, type |-> TypeIdx("T"), weak |-> TRUE,
                                        owner |-> 0, live |-> TRUE]]
  /\ stack = [t \in Threads |-> IF t \in 1..NPublishers THEN <<Frame("main", "run")>>
                                ELSE <<>>]
  /\ appOwner = TRUE
  /\ busLive = TRUE
  /\ aborted = FALSE
  /\ count = [c \in 1..KListeners |-> 0]
  /\ unsubCalls = [i \in {} |-> 0]
  /\ released = {}
  /\ nOps = 0

\* one iteration of a publishing thread's loop: the call of publish
LoopPublish(t) ==
  /\ At(t, "main", "run") /\ BusUsable
  /\ Top(t).idx < MPublishes
  /\ nOps' = nOps + 1
  /\ stack' = SetStack(t, << [Top(t) EXCEPT !.idx = @ + 1],
                             [Frame("pub", "lock") EXCEPT !.type = "T", !.val = nOps + 1] >>)
  /\ UNCHANGED <<subscribers, nextId, mutexW, mutexR, cells, tokens, appOwner, busLive,
                 aborted, count, unsubCalls, released>>

NextConc ==
  \E t \in 1..NPublishers :
    \/ LoopPublish(t)
    \/ PubSnapshot(t)
    \/ PubInvoke(t)
    \/ CbReturn(t)
    \/ PubReturn(t)

SpecConc == InitConc /\ [][NextConc]_vars

\* ===================================================================
\* Properties
\* ===================================================================
\* the publish calls that have taken their snapshot
Delivering == {f \in AllFrames(stack) : f.k = "pub" /\ f.pc \in {"loop", "unwind"}}
\* the cells a publish call has invoked so far, in the order of the calls
Invoked(f) == [i \in DOMAIN f.inv |-> f.inv[i][1]]
\* publish is about to return normally: the delivery loop is over
Returning(f) == f.k = "pub" /\ f.pc = "loop" /\ f.idx > Len(Listeners(f))
InCallback(t) == \E i \in DOMAIN stack[t] : stack[t][i].k = "cb"

\* C1: a publish(T, v) call in which no callback has thrown has invoked, each
\* exactly once and with v, the first cells of T's bucket as it was at the
\* snapshot, and all of them when it is about to return.
C1_DeliveredOnce ==
  \A f \in Delivering :
    f.pc = "loop" =>
      /\ Len(f.inv) <= Len(f.at)
      /\ f.inv = [i \in 1..Len(f.inv) |-> <<f.at[i], f.val>>]
      /\ \A i, j \in DOMAIN f.inv : i # j => f.inv[i][1] # f.inv[j][1]
      /\ Returning(f) => Len(f.inv) = Len(f.at)

C1_Witness ==
  \E f \in Delivering :
    /\ Returning(f) /\ Len(f.at) >= 2
    /\ f.inv = [i \in 1..Len(f.at) |-> <<f.at[i], f.val>>]

\* C2: a publish call invokes no cell whose token release had returned (on a
\* live bus) before the call took its snapshot.
C2_NoDeliveryAfterRelease ==
  \A f \in Delivering :
    \A i \in DOMAIN f.inv : cells[f.inv[i][1]].id \notin f.rel

C2_Witness ==
  \E f \in Delivering :
    /\ Returning(f) /\ f.inv # <<>>
    /\ \E c \in DOMAIN cells : cells[c].type = f.type /\ cells[c].id \in f.rel

\* C3: a thread that runs a callback for type T, and in it only calls that
\* concern type T (subscribe, release of a token, publish), never waits for a
\* lock that it holds itself.
C3_NoSelfLockInCallback ==
  \A t \in Threads :
    \A i \in DOMAIN stack[t] :
      (/\ stack[t][i].k = "cb"
       /\ \A j \in (i + 1)..Len(stack[t]) : stack[t][j].type = stack[t][i].type)
      => ~SelfWait(t)

\* C4: a publish call invokes no cell that was subscribed after the call took
\* its snapshot.
C4_NoLateSubscriber ==
  \A f \in Delivering :
    \A i \in DOMAIN f.inv : f.inv[i][1] <= f.ncells

C4_Witness ==
  \E f \in Delivering :
    /\ Returning(f)
    /\ \E c \in DOMAIN cells :
         /\ c > f.ncells /\ cells[c].type = f.type
         /\ c \in Range(Bucket(subscribers, TypeIdx(f.type)))
         /\ c \notin Range(Invoked(f))

\* C5: when each of the N threads has made its M publish calls, every one of
\* the K listeners has been invoked exactly N*M times; never more before.
AllPublished ==
  \A t \in 1..NPublishers : At(t, "main", "run") /\ Top(t).idx = MPublishes
C5_ExactCount ==
  /\ \A c \in 1..KListeners : count[c] <= NPublishers * MPublishes
  /\ AllPublished => \A c \in 1..KListeners : count[c] = NPublishers * MPublishes

C5_Witness ==
  /\ AllPublished
  /\ \A c \in 1..KListeners : count[c] = NPublishers * MPublishes

\* C6: every bucket lists its cells in the order they were subscribed, whatever
\* subscribes and releases came before, and a publish call invokes the cells
\* of its snapshot in that order.
Ascending(s) == \A i, j \in DOMAIN s : i < j => s[i] < s[j]
C6_SubscribeOrder ==
  /\ \A ty \in DOMAIN subscribers : Ascending(subscribers[ty])
  /\ \A f \in Delivering : Ascending(Invoked(f))

C6_Witness ==
  \E f \in Delivering : Returning(f) /\ Len(f.inv) >= 2 /\ Ascending(Invoked(f))

\* C7: publish(U, v) invokes only cells that were subscribed under type U.
C7_TypeIsolation ==
  \A f \in Delivering :
    \A i \in DOMAIN f.inv : cells[f.inv[i][1]].type = f.type

C7_Witness ==
  \E f \in Delivering :
    /\ Returning(f) /\ f.inv # <<>>
    /\ \E c \in DOMAIN cells : cells[c].type # f.type /\ InBucket(c, subscribers)

\* C8: tokens call EventBus::unsubscribe at most once for each (type, id), and
\* a release of a token that is already Released returns at once and changes
\* neither the registry nor the token.
C8_ReleaseOnce ==
  /\ [](\A key \in DOMAIN unsubCalls : unsubCalls[key] <= 1)
  /\ [][\A t \in Threads :
          (At(t, "rel", "check") /\ tokens[Top(t).tok].hid = 0 /\ stack'[t] # stack[t])
          => /\ stack'[t] = Below(t)
             /\ tokens' = [tokens EXCEPT ![Top(t).tok].live = ~Top(t).dtor]
             /\ UNCHANGED <<subscribers, nextId, mutexW, mutexR, cells, unsubCalls,
                            busLive>>]_vars

C8_Witness ==
  \E t \in Threads :
    /\ At(t, "rel", "check")
    /\ tokens[Top(t).tok].hid = 0 /\ tokens[Top(t).tok].type \in Types
    /\ \E key \in DOMAIN unsubCalls : unsubCalls[key] = 1

\* C9: whenever the exclusive lock is not held, no bucket of the map is empty,
\* and a type has a bucket exactly if a cell subscribed for it has not been
\* removed.
C9_NoEmptyBucket ==
  mutexW = 0 =>
    /\ \A ty \in DOMAIN subscribers : subscribers[ty] # <<>>
    /\ \A ty \in Types :
         TypeIdx(ty) \in DOMAIN subscribers
           <=> \E c \in DOMAIN cells : cells[c].type = ty /\ ~cells[c].freed

C9_Witness ==
  /\ mutexW = 0 /\ busLive
  /\ DOMAIN subscribers # {}
  /\ \E c \in DOMAIN cells : cells[c].freed /\ TypeIdx(cells[c].type) \notin DOMAIN subscribers

\* C10: a release of an Active token after the EventBus was destroyed returns
\* at once, touches neither the registry nor its lock, and leaves the token
\* Released; and every return of Subscription::unsubscribe leaves it Released.
C10_DeadRegistry ==
  [][\A t \in Threads :
       (stack[t] # <<>> /\ Top(t).k = "rel" /\ stack'[t] # stack[t])
       => LET k == Top(t).tok
          IN /\ (~busLive /\ tokens[k].hid # 0)
                  => /\ stack'[t] = Below(t)
                     /\ tokens'[k].hid = 0 /\ ~tokens'[k].weak
                     /\ UNCHANGED <<subscribers, nextId, mutexW, mutexR, cells, unsubCalls>>
             /\ Len(stack'[t]) < Len(stack[t])
                  => tokens'[k].hid = 0 /\ ~tokens'[k].weak]_vars

\* some handler id is neither held by an Active token nor was it ever passed
\* to EventBus::unsubscribe: its token was released after the bus had died
C10_Witness ==
  /\ ~busLive
  /\ \A t \in Threads : stack[t] = <<>>
  /\ Cardinality({k \in DOMAIN tokens : tokens[k].hid # 0})
       + Cardinality(DOMAIN unsubCalls) < Len(cells)

Unwinding(t) == stack[t] # <<>> /\ Top(t).k = "pub" /\ Top(t).thrown
C12_ThrowPropagates ==
  /\ [](\A f \in Delivering :
          f.thrown =>
            /\ f.pc = "unwind"
            /\ Len(f.inv) >= 1 /\ Len(f.inv) <= Len(f.at)
            /\ f.inv = [i \in 1..Len(f.inv) |-> <<f.at[i], f.val>>])
  /\ [](\A t \in Threads : Unwinding(t) => t \notin mutexR /\ mutexW # t)
  /\ [][\A t \in Threads :
          (Unwinding(t) /\ stack'[t] # stack[t])
          => /\ SubSeq(stack'[t], 1, Len(stack[t]) - 1) = Below(t)
             /\ \A i \in Len(stack[t])..Len(stack'[t]) : stack'[t][i].k = "rel"
             /\ UNCHANGED <<subscribers, nextId, mutexW, mutexR, count, tokens>>]_vars

\* the second of three listeners has thrown: the first two were invoked once,
\* the third not at all, and the lock is free
C12_Witness ==
  \E t \in Threads :
    /\ Unwinding(t) /\ mutexW = 0 /\ mutexR = {}
    /\ Len(Top(t).at) = 3 /\ Len(Top(t).inv) = 2
    /\ count[Top(t).at[1]] = 1 /\ count[Top(t).at[2]] = 1 /\ count[Top(t).at[3]] = 0

\* C13: a call of EventBus::unsubscribe(type, id) that finds no cell with that
\* id in type's bucket changes neither the map nor the id counter in any of
\* its steps, and returns normally to its caller.
NoSuchCell(f) == \A i \in DOMAIN f.at : cells[f.at[i]].id # f.id
C13_UnknownIdNoOp ==
  /\ [](\A t \in Threads :
          (At(t, "unsub", "prune") /\ NoSuchCell(Top(t)))
          => Bucket(subscribers, Top(t).type) = Top(t).at)
  /\ [][\A t \in Threads :
          (/\ stack[t] # <<>> /\ Top(t).k = "unsub" /\ stack'[t] # stack[t]
           /\ IF Top(t).pc = "lock"
              THEN \A c \in Range(Bucket(subscribers, Top(t).type)) : cells[c].id # Top(t).id
              ELSE NoSuchCell(Top(t)))
          => /\ UNCHANGED <<subscribers, nextId, cells, tokens>>
             /\ \/ stack'[t] = SetTop(t, [Top(t) EXCEPT !.pc = "prune",
                                                      !.at = Bucket(subscribers, Top(t).type)])[t]
                \/ stack'[t] = Below(t) /\ mutexW' = 0]_vars

\* unsubscribe<T> with an id that is registered, but under the other type, is
\* about to return and both buckets are as they were
C13_Witness ==
  \E t \in Threads :
    /\ At(t, "unsub", "prune") /\ NoSuchCell(Top(t))
    /\ Top(t).at # <<>>
    /\ \E c \in DOMAIN cells :
         cells[c].id = Top(t).id /\ cells[c].type # Top(t).type /\ InBucket(c, subscribers)

\* a token is Active: it carries a handler id
Active(tk) == tk.live /\ tk.hid # 0
\* a release of handler id i is under way in some thread
Releasing(i) ==
  LET Rel(f) == f.k \in {"rel", "unsub"} /\ f.id = i IN AnyFrame(stack, Rel)
Registered(ty, i) == \E c \in Range(Bucket(subscribers, ty)) : cells[c].id = i

\* C14: constructing a token by move from an Active one changes nothing of the
\* registry, gives the new token the source's (type, id) and reference to the
\* bus, and leaves the source Released; and whatever is done with Released
\* tokens, the cell of an Active token stays in its bucket until a release of
\* that token is under way.
C14_MoveConstruct ==
  /\ [](\A k \in DOMAIN tokens :
          (Active(tokens[k]) /\ busLive /\ ~Releasing(tokens[k].hid))
          => Registered(tokens[k].type, tokens[k].hid))
  /\ [][(Len(tokens') = Len(tokens) + 1 /\ Len(cells') = Len(cells))
        => LET new == tokens'[Len(tokens')]
           IN /\ UNCHANGED <<subscribers, nextId, mutexW, mutexR, cells, count>>
              /\ \E o \in DOMAIN tokens :
                   /\ new.hid = tokens[o].hid /\ new.type = tokens[o].type
                   /\ new.weak = tokens[o].weak /\ new.live
                   /\ tokens'[o].hid = 0 /\ ~tokens'[o].weak
                   /\ \A x \in DOMAIN tokens \ {o} : tokens'[x] = tokens[x]]_vars

\* a token was move-constructed, its source destroyed, and a publish made after
\* that is delivering to the cell, which the new token still holds
C14_Witness ==
  \E k \in DOMAIN tokens, o \in DOMAIN tokens :
    /\ o < k /\ Active(tokens[k]) /\ ~tokens[o].live /\ tokens[o].type = tokens[k].type
    /\ Len(cells) = 1 /\ cells[1].id = tokens[k].hid
    /\ Registered(tokens[k].type, tokens[k].hid)
    /\ \E f \in Delivering : f.val = 4 /\ f.inv = <<(<<1, 4>>)>>

\* the Active tokens that carry (ty, i)
Holders(ty, i) ==
  {k \in DOMAIN tokens : Active(tokens[k]) /\ tokens[k].type = ty /\ tokens[k].hid = i}

\* C15: every cell in a bucket is referenced by exactly one Active token, and
\* no two Active tokens carry the same (type, id), whatever subscribes, moves,
\* move-assignments, releases and destructions have happened.
C15_OneTokenPerCell ==
  /\ \A ty \in DOMAIN subscribers :
       \A c \in Range(subscribers[ty]) : Cardinality(Holders(ty, cells[c].id)) = 1
  /\ \A k, j \in DOMAIN tokens :
       (k # j /\ Active(tokens[k]) /\ Active(tokens[j]))
       => <<tokens[k].type, tokens[k].hid>> # <<tokens[j].type, tokens[j].hid>>

\* the only cell is registered and held by a token that got it by a move; the
\* token subscribe returned still exists and is Released
C15_Witness ==
  /\ Len(cells) = 1 /\ Len(tokens) >= 2
  /\ Registered(cells[1].type, cells[1].id)
  /\ tokens[1].live /\ tokens[1].hid = 0
  /\ \E k \in DOMAIN tokens : k > 1 /\ Holders(cells[1].type, cells[1].id) = {k}

\* C16: no cell that a publish call's snapshot refers to is freed before the
\* call has left publish, so neither the cell the loop is about to invoke nor
\* the cell whose callback is running is a freed one.
C16_SnapshotKeepsCells ==
  /\ \A f \in Delivering : \A i \in DOMAIN f.snap : ~cells[f.snap[i]].freed
  /\ \A t \in Threads : \A i \in DOMAIN stack[t] :
       stack[t][i].k = "cb" => ~cells[stack[t][i].id].freed

\* a cell has been removed from its bucket by a release that has returned, and
\* a publish call that had it in its snapshot is running its callback
C16_Witness ==
  \E t \in Threads :
    /\ At(t, "cb", "run")
    /\ ~InBucket(Top(t).id, subscribers)
    /\ cells[Top(t).id].id \in released
    /\ ~cells[Top(t).id].freed

\* C17 as claimed: the EventBus is destroyed as soon as the application has
\* given up its shared_ptr, whatever the tokens are doing.
C17_DestroyedWithLastOwner == ~appOwner => ~busLive

\* C17: once the application has given up its shared_ptr, the EventBus exists
\* only while some release is inside bus->unsubscribe and holds the shared_ptr
\* that weakBus.lock() returned; Active tokens at rest never keep it alive.
InsideUnsubscribe ==
  \E t \in Threads : \E i \in DOMAIN stack[t] :
    stack[t][i].k = "rel" /\ stack[t][i].pc = "unsubbed"
C17_OnlyReleaseInProgress == (~appOwner /\ busLive) => InsideUnsubscribe

\* the bus was destroyed with two Active tokens outstanding
C17_Witness ==
  /\ ~appOwner /\ ~busLive
  /\ Cardinality({k \in DOMAIN tokens : Active(tokens[k]) /\ tokens[k].weak}) >= 2

\* C18: in a publish call whose callbacks have not thrown, every cell of the
\* snapshot whose turn has come has been invoked exactly once by that call,
\* also when the release of its token returned after the snapshot was taken.
C18_ReleasedStillInvoked ==
  \A t \in Threads : \A i \in DOMAIN stack[t] :
    LET f == stack[t][i]
    IN (f.k = "pub" /\ f.pc = "loop")
       => \A j \in DOMAIN f.at :
            (/\ cells[f.at[j]].id \in released \ f.rel
             /\ j < f.idx \/ (j = f.idx /\ i < Len(stack[t])))
            => Cardinality({n \in DOMAIN f.inv : f.inv[n][1] = f.at[j]}) = 1

\* a callback is running whose token's release returned after the publish call
\* took its snapshot and before the callback was invoked
C18_Witness ==
  \E t \in Threads :
    /\ At(t, "cb", "run")
    /\ cells[Top(t).id].id \in Top(t).rel
    /\ cells[Top(t).id].id \notin stack[t][Len(stack[t]) - 1].rel
    /\ count[Top(t).id] = 1

\* C19: a thread that is running a callback of publish holds neither the
\* shared nor the exclusive lock; a subscribe or an unsubscribe that another
\* thread has started can take the exclusive lock and run, unless a thread
\* other than the one in the callback holds the lock.
C19_NoLockInCallback ==
  \A t \in Threads :
    At(t, "cb", "run") =>
      /\ t \notin mutexR /\ mutexW # t
      /\ \A u \in Threads \ {t} :
           (mutexW \in {0, t} /\ mutexR \subseteq {t})
           => /\ At(u, "sub", "lock") => ENABLED SubBody(u)
              /\ At(u, "unsub", "lock") => ENABLED UnsubErase(u)

\* while one thread runs a callback, the other is inside the exclusive section
\* of EventBus::unsubscribe
C19_Witness ==
  \E t \in Threads, u \in Threads :
    /\ t # u /\ At(t, "cb", "run") /\ At(u, "unsub", "prune")
    /\ mutexW = u /\ mutexR = {}

\* C20: when a = std::move(b) with a different token b comes to its move, the
\* release of a has run: a is Released, and if it was Active its previous cell
\* is out of its bucket after exactly one call of EventBus::unsubscribe for
\* it; the move then gives a what b held, leaves b Released and the registry
\* as it is, so the cell b held stays registered.  a = std::move(a) changes
\* no token and nothing of the registry.
C20_MoveAssign ==
  [][\A t \in Threads :
       (stack[t] # <<>> /\ Top(t).k = "assign" /\ stack'[t] # stack[t])
       => LET f == Top(t)
              a == tokens[f.tok]
              b == tokens[f.src]
          IN IF f.pc = "move"
             THEN /\ f.tok # f.src /\ a.hid = 0 /\ ~a.weak
                  /\ f.id # 0 => /\ ~Registered(f.type, f.id)
                                 /\ <<f.type, f.id>> \in DOMAIN unsubCalls
                                 /\ unsubCalls[<<f.type, f.id>>] = 1
                  /\ stack'[t] = Below(t)
                  /\ tokens'[f.tok].hid = b.hid /\ tokens'[f.tok].type = b.type
                  /\ tokens'[f.tok].weak = b.weak
                  /\ tokens'[f.src].hid = 0 /\ ~tokens'[f.src].weak
                  /\ b.hid # 0 => Registered(b.type, b.hid)
                  /\ UNCHANGED <<subscribers, nextId, mutexW, mutexR, cells, unsubCalls>>
             ELSE /\ f.tok = f.src => stack'[t] = Below(t)
                  /\ UNCHANGED <<subscribers, nextId, mutexW, mutexR, cells, tokens,
                                 unsubCalls, count, busLive>>]_vars

\* after a = std::move(b) of two subscribed tokens: a holds the second cell,
\* which is registered, b is Released, and a's first cell is gone
C20_Witness ==
  /\ Len(cells) = 2 /\ Len(tokens) = 2
  /\ \A t \in Threads : stack[t] = <<>>
  /\ \E a \in {1, 2} :
       LET b == 3 - a
       IN /\ Active(tokens[a]) /\ tokens[a].hid = cells[b].id
          /\ tokens[b].live /\ tokens[b].hid = 0
          /\ cells[a].freed /\ Registered(cells[b].type, cells[b].id)

\* C21: no thread asks for the exclusive lock while it holds it: between
\* erase_if and the end of the exclusive section of EventBus::unsubscribe no
\* Active token that the erased cell's callback owned is torn down on that
\* thread, so that the release goes on to its end and the process is not
\* terminated.
C21_NoTeardownUnderLock ==
  /\ ~aborted
  /\ \A t \in Threads :
       /\ \A i \in DOMAIN stack[t] :
            (stack[t][i].k = "unsub" /\ stack[t][i].pc = "prune")
            => \A j \in (i + 1)..Len(stack[t]) :
                 stack[t][j].k = "rel" => tokens[stack[t][j].tok].hid = 0
       /\ (stack[t] # <<>> /\ Top(t).k = "unsub" /\ Top(t).pc = "lock") => mutexW # t

====
